---- MODULE Spec2Model ----
(***************************************************************************)
(* Model of the sudoku solver of src/sudoku/core.rs and                    *)
(* src/sudoku/solve.rs: the Board, the BookkeptBoard constraint tracker    *)
(* (bit sets of open and updated cells, 27 AllowedNumbers masks), the      *)
(* propagation loop make_forced_choices and the recursive solve_helper.    *)
(*                                                                         *)
(* Encodings.                                                              *)
(*   - An unsigned machine word (u16, u128) is the set of the positions of *)
(*     its 1 bits; &, |, !, << and "- 1" are the operators BitAnd, BitOr,  *)
(*     BitNot, Shl and Dec below, computed at the width of the word.       *)
(*   - A Number is its u8 value.  A Space is one byte: Empty is 0 and      *)
(*     Full(n) is n (Number wraps NonZeroU8, so 0 is free for Empty).      *)
(*   - Option<T> is a record: None, or Some(v) with field val.             *)
(*   - A Board is a function from 0..80 (Coord.0) to Space.                *)
(***************************************************************************)
EXTENDS Integers, Sequences, FiniteSets, TLC

VARIABLES
    input,      \* the Grid of the first call of solve
    arg,        \* the Grid of the running call of solve
    run,        \* "first", "again" (same Grid once more) or "on_result"
    first,      \* result and fills of the first call, once a later one runs
    pc,         \* position in solve / solve_helper / make_forced_choices
    next_coord, \* the coord the loop of from_board visits next
    board,      \* the BookkeptBoard of the innermost solve_helper call
    updates,    \* the CoordBitsetIterator of the running for loop
    stack,      \* the suspended solve_helper calls, innermost last
    ret,        \* value returned by the solve_helper call that just ended
    result,     \* value returned by solve
    fills,      \* the (coord, num) of every fill call of this run, in order
    new_n,      \* argument of Number::new
    number      \* outcome of Number::new

vars == <<input, arg, run, first, pc, next_coord, board, updates, stack, ret,
          result, fills, new_n, number>>

\* ------------------------------------------------------------------------
\* Machine words as sets of bit positions
\* ------------------------------------------------------------------------
U8Max == 255
U16Bits == 16
U128Bits == 128

BitAnd(a, b) == a \cap b
BitOr(a, b) == a \cup b
BitNot(a, w) == (0 .. (w - 1)) \ a
Shl(a, k, w) == {i + k : i \in a} \cap (0 .. (w - 1))

\* u16::trailing_zeros / u128::trailing_zeros of a non-zero word
trailing_zeros(a) == CHOOSE i \in a : \A j \in a : i <= j

\* a - 1 for a non-zero word: the lowest 1 bit becomes 0, the bits below it 1
Dec(a) == (a \ {trailing_zeros(a)}) \cup (0 .. (trailing_zeros(a) - 1))

\* ------------------------------------------------------------------------
\* core.rs: Number, Space, Coord, Board
\* ------------------------------------------------------------------------
None == [some |-> FALSE]
Some(v) == [some |-> TRUE, val |-> v]

\* NonZeroU8::new(n)? inside Some(..)
safe_new(n) == IF n = 0 THEN None ELSE Some(n)

\* Option::unwrap: the value, or a panic
unwrap(opt) == IF opt.some THEN [panicked |-> FALSE, val |-> opt.val]
               ELSE [panicked |-> TRUE]

\* Number::new: safe_new(n).unwrap()
Number_new(n) == unwrap(safe_new(n))

Number_get(num) == num

Empty == 0
Full(num) == Number_get(num)

NumCells == 81
Side == 9
BoxSide == 3

Coord_all == 0 .. (NumCells - 1)
Coord_new(x, y) == y * Side + x
Coord_x(c) == c % Side
Coord_y(c) == c \div Side
Coord_square(c) == BoxSide * (Coord_y(c) \div BoxSide) + (Coord_x(c) \div BoxSide)

Board_new == [c \in Coord_all |-> Empty]

\* ------------------------------------------------------------------------
\* solve.rs: AllowedNumbers and its iterator
\* ------------------------------------------------------------------------
\* 0b111_111_111_0
AllowedNumbers_all == 1 .. 9

\* the mask of a candidate set whose bit 0 stands for symbol 1
get_mask_zero_based(num) == Shl({0}, Number_get(num) - 1, U16Bits)

get_mask(num) == Shl({0}, Number_get(num), U16Bits)

disallow(self, num) == BitAnd(self, BitNot(get_mask(num), U16Bits))

are_none_allowed(it) == it = {}

is_one_allowed(it) == it # {} /\ BitAnd(it, Dec(it)) = {}

\* a next that drops every other candidate once the first is handed out
AllowedNumbersIterator_next_first_only(it) ==
    IF it = {} THEN [item |-> None, rest |-> it]
    ELSE [item |-> safe_new(trailing_zeros(it)), rest |-> {}]

\* a next that hands out the highest candidate first
AllowedNumbersIterator_next_descending(it) ==
    IF it = {} THEN [item |-> None, rest |-> it]
    ELSE LET top == CHOOSE i \in it : \A j \in it : j <= i
         IN  [item |-> safe_new(top), rest |-> it \ {top}]

\* AllowedNumbersIterator::next: the item, and the iterator afterwards
AllowedNumbersIterator_next(it) ==
    IF it = {} THEN [item |-> None, rest |-> it]
    ELSE [item |-> safe_new(trailing_zeros(it)), rest |-> BitAnd(it, Dec(it))]

\* a next that hands out the highest set bit first
CoordBitsetIterator_next_descending(it) ==
    IF it = {} THEN [item |-> None, rest |-> it]
    ELSE LET top == CHOOSE i \in it : \A j \in it : j <= i
         IN  [item |-> Some(top), rest |-> it \ {top}]

\* CoordBitsetIterator::next
CoordBitsetIterator_next(it) ==
    IF it = {} THEN [item |-> None, rest |-> it]
    ELSE [item |-> Some(trailing_zeros(it)), rest |-> BitAnd(it, Dec(it))]

\* ------------------------------------------------------------------------
\* solve.rs: BookkeptBoard
\* ------------------------------------------------------------------------
\* (1 << 80) - 1: the last cell is never open
AllOpen_short == Dec(Shl({0}, NumCells - 1, U128Bits))

\* (1 << 82) - 1: a bit past the last cell is set
AllOpen_wide == Dec(Shl({0}, NumCells + 1, U128Bits))

\* (1 << 81) - 1
AllOpen == Dec(Shl({0}, NumCells, U128Bits))

BookkeptBoard_new ==
    [board |-> Board_new,
     open_spaces |-> AllOpen,
     updated_allows |-> {},
     col_allowed |-> [i \in 0 .. 8 |-> AllowedNumbers_all],
     row_allowed |-> [i \in 0 .. 8 |-> AllowedNumbers_all],
     box_allowed |-> [i \in 0 .. 8 |-> AllowedNumbers_all]]

COL_MASK == UNION {Shl({0}, 9 * k, U128Bits) : k \in 0 .. 8}
COL_MASKS == [i \in 0 .. 8 |-> Shl(COL_MASK, i, U128Bits)]

ROW_MASK == 0 .. 8
ROW_MASKS == [i \in 0 .. 8 |-> Shl(ROW_MASK, 9 * i, U128Bits)]

BOX_MASK == UNION {Shl({0, 1, 2}, 9 * k, U128Bits) : k \in 0 .. 2}

add_col_updates(self, coord) ==
    [self EXCEPT !.updated_allows = BitOr(@, COL_MASKS[Coord_x(coord)])]

\* the cells of the row are not marked
add_row_updates_none(self, coord) == self

add_row_updates(self, coord) ==
    [self EXCEPT !.updated_allows = BitOr(@, ROW_MASKS[Coord_y(coord)])]

\* the cells of the box are not marked
add_box_updates_none(self, coord) == self

\* the block rows are taken 9 cells apart instead of 27
add_box_updates_near(self, coord) ==
    LET shift == 3 * (Coord_x(coord) \div 3) + 9 * (Coord_y(coord) \div 3)
    IN  [self EXCEPT !.updated_allows = BitOr(@, Shl(BOX_MASK, shift, U128Bits))]

add_box_updates(self, coord) ==
    LET shift == 3 * (Coord_x(coord) \div 3) + 27 * (Coord_y(coord) \div 3)
    IN  [self EXCEPT !.updated_allows = BitOr(@, Shl(BOX_MASK, shift, U128Bits))]

\* the assertion at the top of fill
fill_assert(self, coord) == self.board[coord] = Empty

\* fill that writes the board at the transposed coordinate
fill_transposed(self, coord, num) ==
    LET s1 == [self EXCEPT !.board[Coord_new(Coord_y(coord), Coord_x(coord))] = Full(num)]
        s2 == [s1 EXCEPT !.open_spaces =
                   BitAnd(@, BitNot(Shl({0}, coord, U128Bits), U128Bits))]
        s3 == add_box_updates(add_row_updates(add_col_updates(s2, coord), coord), coord)
        s4 == [s3 EXCEPT !.updated_allows = BitAnd(@, s3.open_spaces)]
    IN  [s4 EXCEPT !.col_allowed[Coord_x(coord)] = disallow(@, num),
                   !.row_allowed[Coord_y(coord)] = disallow(@, num),
                   !.box_allowed[Coord_square(coord)] = disallow(@, num)]

\* fill that leaves the bit of the cell in open_spaces
fill_keeps_open(self, coord, num) ==
    LET s1 == [self EXCEPT !.board[coord] = Full(num)]
        s3 == add_box_updates(add_row_updates(add_col_updates(s1, coord), coord), coord)
        s4 == [s3 EXCEPT !.updated_allows = BitAnd(@, s3.open_spaces)]
    IN  [s4 EXCEPT !.col_allowed[Coord_x(coord)] = disallow(@, num),
                   !.row_allowed[Coord_y(coord)] = disallow(@, num),
                   !.box_allowed[Coord_square(coord)] = disallow(@, num)]

\* fill that does not mask updated_allows with open_spaces
fill_unmasked(self, coord, num) ==
    LET s1 == [self EXCEPT !.board[coord] = Full(num)]
        s2 == [s1 EXCEPT !.open_spaces =
                   BitAnd(@, BitNot(Shl({0}, coord, U128Bits), U128Bits))]
        s3 == add_box_updates(add_row_updates(add_col_updates(s2, coord), coord), coord)
    IN  [s3 EXCEPT !.col_allowed[Coord_x(coord)] = disallow(@, num),
                   !.row_allowed[Coord_y(coord)] = disallow(@, num),
                   !.box_allowed[Coord_square(coord)] = disallow(@, num)]

\* fill, for a call that passes the assertion
fill(self, coord, num) ==
    LET s1 == [self EXCEPT !.board[coord] = Full(num)]
        s2 == [s1 EXCEPT !.open_spaces =
                   BitAnd(@, BitNot(Shl({0}, coord, U128Bits), U128Bits))]
        s3 == add_box_updates(add_row_updates(add_col_updates(s2, coord), coord), coord)
        s4 == [s3 EXCEPT !.updated_allows = BitAnd(@, s3.open_spaces)]
    IN  [s4 EXCEPT !.col_allowed[Coord_x(coord)] = disallow(@, num),
                   !.row_allowed[Coord_y(coord)] = disallow(@, num),
                   !.box_allowed[Coord_square(coord)] = disallow(@, num)]

open_spaces(self) == self.open_spaces

any_updates(self) == self.updated_allows # {}

\* take_updates that does not clear updated_allows
take_updates_keeps(self) == [iter |-> self.updated_allows, self |-> self]

\* take_updates: the iterator handed out, and the tracker afterwards
take_updates(self) ==
    [iter |-> self.updated_allows, self |-> [self EXCEPT !.updated_allows = {}]]

allowed(self, coord) ==
    BitAnd(BitAnd(self.col_allowed[Coord_x(coord)],
                  self.row_allowed[Coord_y(coord)]),
           self.box_allowed[Coord_square(coord)])

\* an open cell whose choice differs from one call of solve to the next
pick_open_space_unstable(self) ==
    IF run = "first" \/ open_spaces(self) = {}
    THEN CoordBitsetIterator_next(open_spaces(self)).item
    ELSE Some(CHOOSE i \in open_spaces(self) : \A j \in open_spaces(self) : j <= i)

\* the items that a CoordBitsetIterator yields when it is run to its end
RECURSIVE Drain(_)
Drain(it) ==
    LET nx == CoordBitsetIterator_next(it)
    IN  IF nx.item.some THEN <<nx.item.val>> \o Drain(nx.rest) ELSE << >>

pick_open_space(self) == CoordBitsetIterator_next(open_spaces(self)).item

\* ------------------------------------------------------------------------
\* The grids handed to solve
\* ------------------------------------------------------------------------
\* largest number of cells erased from Base in one input
MaxHoles == 4

BaseRows ==
    << <<1, 2, 3, 4, 5, 6, 7, 8, 9>>,
       <<4, 5, 6, 7, 8, 9, 1, 2, 3>>,
       <<7, 8, 9, 1, 2, 3, 4, 5, 6>>,
       <<2, 1, 4, 3, 6, 5, 8, 9, 7>>,
       <<3, 6, 5, 8, 9, 7, 2, 1, 4>>,
       <<8, 9, 7, 2, 1, 4, 3, 6, 5>>,
       <<5, 3, 1, 6, 4, 2, 9, 7, 8>>,
       <<6, 4, 2, 9, 7, 8, 5, 3, 1>>,
       <<9, 7, 8, 5, 3, 1, 6, 4, 2>> >>

\* a completely filled grid
Base == [c \in Coord_all |-> Full(BaseRows[Coord_y(c) + 1][Coord_x(c) + 1])]

\* the cells that inputs erase from Base: the four corners of a rectangle
\* holding 1 2 / 2 1 (cells 0, 1, 27, 28) and the centre cell
Pool == {Coord_new(0, 0), Coord_new(1, 0), Coord_new(0, 3), Coord_new(1, 3),
         Coord_new(4, 4)}

\* a clue of Base replaced by another symbol
Overwrites == {[at |-> Coord_new(1, 0), num |-> 1], [at |-> Coord_new(4, 4), num |-> 1]}

Erase(g, H) == [c \in Coord_all |-> IF c \in H THEN Empty ELSE g[c]]

\* clues 1..5 at the start of row 0 and 6, 7 in the last box of row 1: the
\* last three cells of row 0 are left with the two symbols 8 and 9
Pigeon ==
    [c \in Coord_all |->
        IF c < 5 THEN Full(c + 1)
        ELSE IF c = Coord_new(6, 1) THEN Full(6)
        ELSE IF c = Coord_new(7, 1) THEN Full(7)
        ELSE Empty]

\* Base without two 2x2 rectangles that can each be filled in two ways:
\* 1, 2 in columns 0, 1 and 5, 6 in columns 4, 5 of rows 0 and 3
Loose == Erase(Base, {Coord_new(x, y) : x \in {0, 1, 4, 5}, y \in {0, 3}})

Inputs ==
    {Erase(Base, H) : H \in {S \in SUBSET Pool : Cardinality(S) <= MaxHoles}}
    \cup {[Erase(Base, H) EXCEPT ![o.at] = Full(o.num)] :
            H \in {S \in SUBSET Pool : Cardinality(S) <= MaxHoles}, o \in Overwrites}
    \cup {Board_new, Pigeon, Loose}

\* ------------------------------------------------------------------------
\* Start of a call of solve
\* ------------------------------------------------------------------------
NoCall == [called |-> FALSE]

Start(g) ==
    /\ arg = g
    /\ pc = "from_board"
    /\ next_coord = 0
    /\ board = BookkeptBoard_new
    /\ updates = {}
    /\ stack = << >>
    /\ ret = None
    /\ result = None
    /\ fills = << >>

Init ==
    /\ input \in Inputs
    /\ Start(input)
    /\ run = "first"
    /\ first = NoCall
    /\ new_n = 0
    /\ number = NoCall

\* solve(g) is called: the next state is the start of that call
Call(g) ==
    /\ arg' = g
    /\ pc' = "from_board"
    /\ next_coord' = 0
    /\ board' = BookkeptBoard_new
    /\ updates' = {}
    /\ stack' = << >>
    /\ ret' = None
    /\ result' = None
    /\ fills' = << >>

\* a call of fill: the assertion, then the update
CallFill(b, c, num, nextpc) ==
    IF fill_assert(b, c)
    THEN /\ board' = fill(b, c, num)
         /\ fills' = Append(fills, <<c, num>>)
         /\ pc' = nextpc
    ELSE /\ pc' = "panic"
         /\ UNCHANGED <<board, fills>>

\* ------------------------------------------------------------------------
\* BookkeptBoard::from_board, one iteration per step
\* ------------------------------------------------------------------------
FromBoardFill ==
    /\ pc = "from_board"
    /\ next_coord < NumCells
    /\ arg[next_coord] # Empty
    /\ CallFill(board, next_coord, arg[next_coord], "from_board")
    /\ next_coord' = next_coord + 1
    /\ UNCHANGED <<input, arg, run, first, updates, stack, ret, result, new_n, number>>

FromBoardSkip ==
    /\ pc = "from_board"
    /\ next_coord < NumCells
    /\ arg[next_coord] = Empty
    /\ next_coord' = next_coord + 1
    /\ UNCHANGED <<input, arg, run, first, pc, board, updates, stack, ret,
                   result, fills, new_n, number>>

\* from_board returns; solve calls solve_helper, which calls make_forced_choices
FromBoardDone ==
    /\ pc = "from_board"
    /\ next_coord = NumCells
    /\ pc' = "mfc_while"
    /\ UNCHANGED <<input, arg, run, first, next_coord, board, updates, stack, ret,
                   result, fills, new_n, number>>

\* ------------------------------------------------------------------------
\* make_forced_choices
\* ------------------------------------------------------------------------
\* while board.any_updates() { for update in board.take_updates() ..
MfcTake ==
    /\ pc = "mfc_while"
    /\ any_updates(board)
    /\ updates' = take_updates(board).iter
    /\ board' = take_updates(board).self
    /\ pc' = "mfc_for"
    /\ UNCHANGED <<input, arg, run, first, next_coord, stack, ret, result, fills, new_n, number>>

\* the while loop ends: return Some(board), back in solve_helper
MfcReturn ==
    /\ pc = "mfc_while"
    /\ ~any_updates(board)
    /\ pc' = "pick"
    /\ UNCHANGED <<input, arg, run, first, next_coord, board, updates, stack, ret,
                   result, fills, new_n, number>>

MfcForEnd ==
    /\ pc = "mfc_for"
    /\ ~CoordBitsetIterator_next(updates).item.some
    /\ updates' = CoordBitsetIterator_next(updates).rest
    /\ pc' = "mfc_while"
    /\ UNCHANGED <<input, arg, run, first, next_coord, board, stack, ret, result,
                   fills, new_n, number>>

\* allowed.are_none_allowed(): return None
MfcNone ==
    /\ pc = "mfc_for"
    /\ CoordBitsetIterator_next(updates).item.some
    /\ LET update == CoordBitsetIterator_next(updates).item.val
       IN  are_none_allowed(allowed(board, update))
    /\ updates' = CoordBitsetIterator_next(updates).rest
    /\ ret' = None
    /\ pc' = "return"
    /\ UNCHANGED <<input, arg, run, first, next_coord, board, stack, result, fills,
                   new_n, number>>

\* allowed.is_one_allowed(): fill(update, allowed.next().unwrap())
MfcForced ==
    /\ pc = "mfc_for"
    /\ CoordBitsetIterator_next(updates).item.some
    /\ LET update == CoordBitsetIterator_next(updates).item.val
           it == allowed(board, update)
           num == unwrap(AllowedNumbersIterator_next(it).item)
       IN  /\ ~are_none_allowed(it)
           /\ is_one_allowed(it)
           /\ IF num.panicked
              THEN pc' = "panic" /\ UNCHANGED <<board, fills>>
              ELSE CallFill(board, update, num.val, "mfc_for")
    /\ updates' = CoordBitsetIterator_next(updates).rest
    /\ UNCHANGED <<input, arg, run, first, next_coord, stack, ret, result, new_n, number>>

MfcSkip ==
    /\ pc = "mfc_for"
    /\ CoordBitsetIterator_next(updates).item.some
    /\ LET update == CoordBitsetIterator_next(updates).item.val
           it == allowed(board, update)
       IN  ~are_none_allowed(it) /\ ~is_one_allowed(it)
    /\ updates' = CoordBitsetIterator_next(updates).rest
    /\ UNCHANGED <<input, arg, run, first, pc, next_coord, board, stack, ret, result,
                   fills, new_n, number>>

\* ------------------------------------------------------------------------
\* solve_helper
\* ------------------------------------------------------------------------
\* no open spaces: return Some(board)
PickNone ==
    /\ pc = "pick"
    /\ ~pick_open_space(board).some
    /\ ret' = Some(board)
    /\ pc' = "return"
    /\ UNCHANGED <<input, arg, run, first, next_coord, board, updates, stack, result,
                   fills, new_n, number>>

\* let allowed = board.allowed(open_space); the for loop starts
PickSome ==
    /\ pc = "pick"
    /\ pick_open_space(board).some
    /\ LET open_space == pick_open_space(board).val
       IN  stack' = Append(stack, [board |-> board,
                                   open_space |-> open_space,
                                   allowed |-> allowed(board, open_space)])
    /\ pc' = "branch"
    /\ UNCHANGED <<input, arg, run, first, next_coord, board, updates, ret, result,
                   fills, new_n, number>>

Top == stack[Len(stack)]
Pop == SubSeq(stack, 1, Len(stack) - 1)

\* a branch that fills the tracker the failed call left behind instead of a copy
BranchTry_shared ==
    /\ pc = "branch"
    /\ AllowedNumbersIterator_next(Top.allowed).item.some
    /\ LET nx == AllowedNumbersIterator_next(Top.allowed)
       IN  /\ stack' = [stack EXCEPT ![Len(stack)].allowed = nx.rest]
           /\ CallFill(board, Top.open_space, nx.item.val, "mfc_while")
    /\ UNCHANGED <<input, arg, run, first, next_coord, updates, ret, result, new_n, number>>

\* next possibility: copy the board, fill, call solve_helper
BranchTry ==
    /\ pc = "branch"
    /\ AllowedNumbersIterator_next(Top.allowed).item.some
    /\ LET nx == AllowedNumbersIterator_next(Top.allowed)
       IN  /\ stack' = [stack EXCEPT ![Len(stack)].allowed = nx.rest]
           /\ CallFill(Top.board, Top.open_space, nx.item.val, "mfc_while")
    /\ UNCHANGED <<input, arg, run, first, next_coord, updates, ret, result, new_n, number>>

\* the for loop ends: return None
BranchExhausted ==
    /\ pc = "branch"
    /\ ~AllowedNumbersIterator_next(Top.allowed).item.some
    /\ stack' = Pop
    /\ ret' = None
    /\ pc' = "return"
    /\ UNCHANGED <<input, arg, run, first, next_coord, board, updates, result, fills,
                   new_n, number>>

\* if let Some(solved) = solve_helper(..) { return Some(solved); }
ReturnSome ==
    /\ pc = "return"
    /\ stack # << >>
    /\ ret.some
    /\ stack' = Pop
    /\ UNCHANGED <<input, arg, run, first, pc, next_coord, board, updates, ret, result,
                   fills, new_n, number>>

\* the recursive call returned None: next iteration of the for loop
ReturnNone ==
    /\ pc = "return"
    /\ stack # << >>
    /\ ~ret.some
    /\ pc' = "branch"
    /\ UNCHANGED <<input, arg, run, first, next_coord, board, updates, stack, ret,
                   result, fills, new_n, number>>

\* ------------------------------------------------------------------------
\* solve
\* ------------------------------------------------------------------------
\* let res = solve_helper(board)?; Some(res.board)
SolveSome ==
    /\ pc = "return"
    /\ stack = << >>
    /\ ret.some
    /\ result' = Some(ret.val.board)
    /\ pc' = "done"
    /\ UNCHANGED <<input, arg, run, first, next_coord, board, updates, stack, ret,
                   fills, new_n, number>>

SolveNone ==
    /\ pc = "return"
    /\ stack = << >>
    /\ ~ret.some
    /\ result' = None
    /\ pc' = "done"
    /\ UNCHANGED <<input, arg, run, first, next_coord, board, updates, stack, ret,
                   fills, new_n, number>>

\* solve is called once more on the same Grid
SolveAgain ==
    /\ pc = "done"
    /\ run = "first"
    /\ run' = "again"
    /\ first' = [called |-> TRUE, result |-> result, fills |-> fills]
    /\ Call(arg)
    /\ UNCHANGED <<input, new_n, number>>

\* solve is called on the Grid that solve returned
SolveResult ==
    /\ pc = "done"
    /\ run = "first"
    /\ result.some
    /\ run' = "on_result"
    /\ first' = [called |-> TRUE, result |-> result, fills |-> fills]
    /\ Call(result.val)
    /\ UNCHANGED <<input, new_n, number>>

Next ==
    \/ FromBoardFill \/ FromBoardSkip \/ FromBoardDone
    \/ MfcTake \/ MfcReturn \/ MfcForEnd \/ MfcNone \/ MfcForced \/ MfcSkip
    \/ PickNone \/ PickSome \/ BranchTry \/ BranchExhausted
    \/ ReturnSome \/ ReturnNone \/ SolveSome \/ SolveNone
    \/ SolveAgain \/ SolveResult

Spec == Init /\ [][Next]_vars

\* the program is sequential: a step that can be taken is taken
FairSpec == Spec /\ WF_vars(Next)

\* ------------------------------------------------------------------------
\* Number::new on every u8
\* ------------------------------------------------------------------------
InitNumber ==
    /\ input = Board_new
    /\ Start(input)
    /\ run = "first"
    /\ first = NoCall
    /\ new_n \in 0 .. U8Max
    /\ number = NoCall

NumberNew ==
    /\ ~number.called
    /\ number' = [called |-> TRUE, out |-> Number_new(new_n)]
    /\ UNCHANGED <<input, arg, run, first, pc, next_coord, board, updates, stack, ret,
                   result, fills, new_n>>

NextNumber == NumberNew

SpecNumber == InitNumber /\ [][NextNumber]_vars

TypeOK == pc \in {"from_board", "mfc_while", "mfc_for", "pick", "branch",
                  "return", "done", "panic", "tracker"}

\* ------------------------------------------------------------------------
\* A BookkeptBoard under any sequence of fill and take_updates calls, next to
\* the trackers of the runs of solve
\* ------------------------------------------------------------------------
\* largest number of fill calls in a free sequence
MaxTrackerFills == 2

\* the cells and symbols of the fill calls of a free sequence: the corners,
\* edge centres and centre of the grid (one cell of every block), and four
\* cells that share a block but no row or column with one of them
TrackerCells ==
    {Coord_new(x, y) : x \in {0, 4, 8}, y \in {0, 4, 8}}
    \cup {Coord_new(1, 1), Coord_new(2, 1), Coord_new(3, 5), Coord_new(7, 7)}
TrackerSymbols == {1, 9}

InitTracker ==
    /\ input = Board_new
    /\ arg = Board_new
    /\ pc = "tracker"
    /\ next_coord = 0
    /\ board = BookkeptBoard_new
    /\ updates = {}
    /\ stack = << >>
    /\ ret = None
    /\ result = None
    /\ fills = << >>
    /\ run = "first"
    /\ first = NoCall
    /\ new_n = 0
    /\ number = NoCall

\* fill(c, num) on a cell that passes the assertion
TrackerFill ==
    /\ pc = "tracker"
    /\ Cardinality({c \in Coord_all : board.board[c] # Empty}) < MaxTrackerFills
    /\ \E c \in TrackerCells, num \in TrackerSymbols :
          /\ fill_assert(board, c)
          /\ board' = fill(board, c, num)
    /\ UNCHANGED <<input, arg, run, first, pc, next_coord, updates, stack, ret,
                   result, fills, new_n, number>>

\* take_updates(); the iterator handed out replaces the one held before
TrackerTake ==
    /\ pc = "tracker"
    /\ updates' = take_updates(board).iter
    /\ board' = take_updates(board).self
    /\ UNCHANGED <<input, arg, run, first, pc, next_coord, stack, ret, result,
                   fills, new_n, number>>

NextTracker ==
    \/ TrackerFill \/ TrackerTake
    \/ FromBoardFill \/ FromBoardSkip \/ FromBoardDone
    \/ MfcTake \/ MfcReturn \/ MfcForEnd \/ MfcNone \/ MfcForced \/ MfcSkip
    \/ PickNone \/ PickSome \/ BranchTry \/ BranchExhausted
    \/ ReturnSome \/ ReturnNone \/ SolveSome \/ SolveNone
    \/ SolveAgain \/ SolveResult

SpecTracker == (InitTracker \/ Init) /\ [][NextTracker]_vars

\* ------------------------------------------------------------------------
\* Grids: units, validity, completions
\* ------------------------------------------------------------------------
Symbols == 1 .. 9

RowCells(y) == {c \in Coord_all : Coord_y(c) = y}
ColCells(x) == {c \in Coord_all : Coord_x(c) = x}
BlockCells(b) == {c \in Coord_all : Coord_square(c) = b}

Units == {RowCells(y) : y \in 0 .. 8} \cup {ColCells(x) : x \in 0 .. 8}
         \cup {BlockCells(b) : b \in 0 .. 8}

\* every row, column and block holds each symbol exactly once
ValidGrid(g) ==
    \A u \in Units : \A s \in Symbols : Cardinality({c \in u : g[c] = s}) = 1

AllFull(g) == \A c \in Coord_all : g[c] # Empty

\* h is a valid completion of g
IsCompletion(g, h) ==
    /\ ValidGrid(h)
    /\ \A c \in Coord_all : g[c] # Empty => h[c] = g[c]

\* the same symbol stands twice in one row of g
RowDup(g) ==
    \E y \in 0 .. 8 : \E c, d \in RowCells(y) : c # d /\ g[c] # Empty /\ g[c] = g[d]

Peers(c) == {d \in Coord_all : d # c /\ (Coord_x(d) = Coord_x(c)
                                         \/ Coord_y(d) = Coord_y(c)
                                         \/ Coord_square(d) = Coord_square(c))}

\* all valid completions of g, by exhaustive search on the first Empty cell
RECURSIVE Completions(_)
Completions(g) ==
    IF AllFull(g) THEN (IF ValidGrid(g) THEN {g} ELSE {})
    ELSE LET c == CHOOSE c \in Coord_all :
                      g[c] = Empty /\ \A d \in Coord_all : g[d] = Empty => c <= d
         IN  UNION {Completions([g EXCEPT ![c] = s]) :
                      s \in {t \in Symbols : \A d \in Peers(c) : g[d] # t}}

\* g has a valid completion: Base is one, or the search finds one
HasCompletion(g) == IsCompletion(g, Base) \/ Completions(g) # {}

Returned == pc = "done" /\ result.some

\* ------------------------------------------------------------------------
\* Claims
\* ------------------------------------------------------------------------
\* C1: for any input Grid, a Grid returned by solve has each symbol 1..9
\* exactly once in every row, every column and every 3x3 block.
C1_ReturnedGridValid == Returned => ValidGrid(result.val)

\* C2: for an input Grid without valid completion, and in particular for one
\* with the same symbol twice in a row, solve returns None.
C2_UnsolvableReturnsNone ==
    (pc = "done" /\ (RowDup(arg) \/ ~HasCompletion(arg))) => ~result.some

\* C3: for an input Grid with at least one valid completion, solve returns a
\* Grid, and that Grid is a valid completion of the input (hence the only
\* one when it is unique); the empty Grid is solved to a valid grid.
C3_Complete ==
    (pc = "done" /\ HasCompletion(arg)) =>
        /\ result.some
        /\ IsCompletion(arg, result.val)
        /\ result.val \in (IF arg = Board_new THEN {result.val} ELSE Completions(arg))

\* the empty Grid has been solved
C3_Witness == Returned /\ arg = Board_new /\ run = "first"

\* C4: every cell that is Full(s) in the input is Full(s) in the returned
\* Grid, and no fill of the run overwrites or clears a clue already loaded
\* into the tracker.
C4_CluesKept ==
    /\ \A c \in Coord_all : (c < next_coord /\ arg[c] # Empty) => board.board[c] = arg[c]
    /\ Returned => \A c \in Coord_all : arg[c] # Empty => result.val[c] = arg[c]

\* a Grid with clues and holes has been completed
C4_Witness ==
    /\ Returned
    /\ \E c, d \in Coord_all : arg[c] # Empty /\ arg[d] = Empty /\ result.val[d] # Empty

\* C5: solve returns nothing or a Grid without Empty cell: solve_helper
\* returns Some only with an empty open-cell set and a board of Full cells.
C5_NoPartial ==
    /\ Returned => AllFull(result.val)
    /\ (pc = "return" /\ ret.some) =>
          open_spaces(ret.val) = {} /\ AllFull(ret.val.board)

\* a nested solve_helper call returns a solution
C5_Witness == pc = "return" /\ ret.some /\ Len(stack) >= 2

\* C6: when make_forced_choices returns a tracker, its dirty set is empty and
\* every open cell has at least two effective candidates.
C6_Quiescent ==
    pc = "pick" =>
        /\ board.updated_allows = {}
        /\ \A c \in Coord_all :
              (c \in open_spaces(board) \/ board.board[c] = Empty) =>
                  Cardinality(allowed(board, c)) >= 2

\* propagation after a branch fill has ended with cells still open
C6_Witness ==
    /\ pc = "pick"
    /\ Len(stack) >= 1
    /\ open_spaces(board) # {}
    /\ fills # << >> /\ fills[Len(fills)][1] # stack[Len(stack)].open_space

\* C7: Number::new(n) panics for every n outside 1..9.
C7_OutOfRangePanics ==
    (number.called /\ new_n \notin 1 .. 9) => number.out.panicked

\* C8: solve on a completely filled valid Grid returns that Grid, and solve
\* on a Grid returned by solve returns that same Grid.
C8_Idempotent ==
    /\ (pc = "done" /\ AllFull(arg) /\ ValidGrid(arg)) => result = Some(arg)
    /\ (pc = "done" /\ run = "on_result") => result = Some(arg) /\ result = first.result

\* solve has run on the Grid it returned for an input with Empty cells
C8_Witness ==
    /\ pc = "done"
    /\ run = "on_result"
    /\ \E c \in Coord_all : input[c] = Empty

C10_FillOnEmpty ==
    /\ pc # "panic"
    /\ pc = "mfc_for" => \A c \in updates : board.board[c] = Empty

\* a drained list is being processed after a fill of the same pass
C10_Witness ==
    /\ pc = "mfc_for"
    /\ updates # {}
    /\ any_updates(board)
    /\ Len(stack) >= 1

\* the cells of each row, column and block, and the cells that share a row,
\* column or block with a cell (the cell included)
RowOf == [i \in 0 .. 8 |-> RowCells(i)]
ColOf == [i \in 0 .. 8 |-> ColCells(i)]
BlockOf == [i \in 0 .. 8 |-> BlockCells(i)]
HouseOf == [c \in Coord_all |-> Peers(c) \cup {c}]

\* the symbols of the Full cells among the cells u of tracker b
Held(b, u) == {b.board[c] : c \in u} \ {Empty}

\* C11: each row, column and block candidate set is {1..9} minus the symbols
\* of the Full cells of that unit, and allowed(coord) is the set of symbols
\* that stand in no Full cell of the row, column or block of coord.
C11_CandidateSets ==
    /\ \A i \in 0 .. 8 :
          /\ board.col_allowed[i] = Symbols \ Held(board, ColOf[i])
          /\ board.row_allowed[i] = Symbols \ Held(board, RowOf[i])
          /\ board.box_allowed[i] = Symbols \ Held(board, BlockOf[i])
    /\ \A c \in Coord_all :
          allowed(board, c) = Symbols \ Held(board, HouseOf[c])

\* a free sequence has filled two cells of one block with different symbols
C11_Witness ==
    /\ pc = "tracker"
    /\ \E i \in 0 .. 8 : Cardinality(board.box_allowed[i]) = 7

EmptyCells(b) == {c \in Coord_all : b.board[c] = Empty}

\* a step that is a call of take_updates on a non-empty dirty set
IsTake ==
    /\ board.updated_allows # {}
    /\ board'.updated_allows = {}
    /\ board'.board = board.board

\* C12: bit i of the open-cell set is set exactly when cell i is Empty (no bit
\* at 81 or above), the dirty set is a subset of the open-cell set, and
\* take_updates hands out Empty cells only.
C12_OpenAndDirty ==
    /\ [](/\ open_spaces(board) = EmptyCells(board)
          /\ board.updated_allows \subseteq open_spaces(board))
    /\ [][IsTake => (updates' = board.updated_allows
                     /\ updates' \subseteq EmptyCells(board'))]_vars

\* in a free sequence a cell handed out by take_updates was filled later and
\* is not in the dirty set that the fill built
C12_Witness ==
    /\ pc = "tracker"
    /\ board.updated_allows # {}
    /\ \E c \in updates : board.board[c] # Empty

\* the tracker that a fill of this step is applied to: the copy of the
\* suspended call at a branch step, the tracker in use otherwise
FillSrc == IF pc = "branch" /\ pc' = "mfc_while" THEN Top.board ELSE board

\* the cells that this step fills
Filled == {c \in Coord_all : FillSrc.board[c] = Empty /\ board'.board[c] # Empty}

\* C13: fill(c, s) leaves the dirty set equal to the old dirty set united with
\* the row, the column and the block of c, intersected with the new open-cell
\* set; the column, row and block masks of c select exactly the cells with
\* the same x, the same y or the same square index as c.
C13_FillDirties ==
    /\ [](\A c \in Coord_all :
            /\ add_col_updates(BookkeptBoard_new, c).updated_allows = ColOf[Coord_x(c)]
            /\ add_row_updates(BookkeptBoard_new, c).updated_allows = RowOf[Coord_y(c)]
            /\ add_box_updates(BookkeptBoard_new, c).updated_allows
                  = BlockOf[Coord_square(c)])
    /\ [][\A c \in Filled :
            board'.updated_allows =
                (FillSrc.updated_allows \cup ColOf[Coord_x(c)] \cup RowOf[Coord_y(c)]
                    \cup BlockOf[Coord_square(c)]) \cap open_spaces(board')]_vars

\* a free sequence of two fills without take_updates: the dirty set holds the
\* open cells of both rows, columns and blocks
C13_Witness ==
    /\ pc = "tracker"
    /\ \E c, d \in Coord_all :
          /\ c # d /\ board.board[c] # Empty /\ board.board[d] # Empty
          /\ d \notin HouseOf[c]
          /\ board.updated_allows = (HouseOf[c] \cup HouseOf[d]) \ {c, d}

\* seq lists the members of S, each once, in increasing order
IsIncreasingListOf(seq, S) ==
    /\ Len(seq) = Cardinality(S)
    /\ \A i \in 1 .. Len(seq) : seq[i] \in S
    /\ \A i \in 1 .. (Len(seq) - 1) : seq[i] < seq[i + 1]

C15_Terminates ==
    /\ (pc = "from_board") ~> (pc = "done")
    /\ [](Len(stack) <= Cardinality({c \in Coord_all : arg[c] = Empty}))
    /\ [][(pc = "mfc_for" /\ ~any_updates(board) /\ any_updates(board'))
            => Len(fills') = Len(fills) + 1]_vars
    /\ [][(pc = "branch" /\ pc' = "mfc_while")
            => (Cardinality(Filled) = 1 /\ Len(fills') = Len(fills) + 1)]_vars
    /\ [][Len(fills') = Len(fills) + 1
            => Cardinality(EmptyCells(board')) = Cardinality(EmptyCells(FillSrc)) - 1]_vars

\* forty calls deep, a pass of the propagation loop has filled cells and the
\* loop goes on
C15_Witness ==
    /\ pc = "mfc_while"
    /\ any_updates(board)
    /\ Len(stack) >= 40

\* the candidates of the chosen cell of a suspended call that were tried
Tried(f) == allowed(f.board, f.open_space) \ f.allowed

\* C16: the cell of a branch node is the lowest open cell of the propagated
\* tracker, its candidates are tried in strictly ascending order, after a
\* success nothing more is filled and every caller returns, and a node
\* returns None only when all its candidates were tried and failed.
C16_BranchOrder ==
    /\ [](\A i \in 1 .. Len(stack) :
            /\ stack[i].board.updated_allows = {}
            /\ stack[i].open_space \in EmptyCells(stack[i].board)
            /\ \A c \in EmptyCells(stack[i].board) : stack[i].open_space <= c
            /\ stack[i].allowed \subseteq allowed(stack[i].board, stack[i].open_space)
            /\ \A t \in Tried(stack[i]), r \in stack[i].allowed : t < r)
    /\ [][(pc = "branch" /\ pc' = "mfc_while") =>
            /\ Len(fills') = Len(fills) + 1
            /\ fills'[Len(fills')][1] = Top.open_space
            /\ fills'[Len(fills')][2] \in Top.allowed
            /\ \A r \in Top.allowed : fills'[Len(fills')][2] <= r
            /\ stack'[Len(stack)].allowed = Top.allowed \ {fills'[Len(fills')][2]}]_vars
    /\ [][(pc = "return" /\ ret.some) =>
            /\ fills' = fills
            /\ \/ pc' = "return" /\ ret' = ret /\ Len(stack') = Len(stack) - 1
               \/ pc' = "done" /\ stack = << >> /\ result' = Some(ret.val.board)]_vars
    /\ [][(pc = "return" /\ pc' = "branch") => ~ret.some]_vars
    /\ [][(pc = "branch" /\ pc' = "return") => (Top.allowed = {} /\ ~ret'.some)]_vars

\* a node is about to try a further candidate after two that failed
C16_Witness ==
    /\ pc = "branch"
    /\ Cardinality(Tried(Top)) >= 2
    /\ Top.allowed # {}

\* C17: a suspended solve_helper call keeps the propagated tracker it had when
\* it chose its cell, whatever the calls below it fill, and every candidate of
\* the node is filled on a copy of that tracker: board, open-cell set, dirty
\* set and the 27 candidate sets are those of the first candidate's fill.
C17_CopyOnBranch ==
    /\ [][(pc = "pick" /\ pc' = "branch") =>
            (stack'[Len(stack')].board = board /\ board' = board)]_vars
    /\ [][\A i \in 1 .. Len(stack) :
            i <= Len(stack') =>
                /\ stack'[i].board = stack[i].board
                /\ stack'[i].open_space = stack[i].open_space]_vars
    /\ [][(pc = "branch" /\ Top.allowed # {}) =>
            /\ pc' = "mfc_while"
            /\ Len(fills') = Len(fills) + 1
            /\ fills'[Len(fills')][1] = Top.open_space
            /\ board' = fill(Top.board, Top.open_space, fills'[Len(fills')][2])
            /\ stack'[Len(stack)].board = Top.board]_vars

\* a later candidate is about to be filled after a failed call that filled
\* other cells than the chosen one
C17_Witness ==
    /\ pc = "branch"
    /\ Tried(Top) # {}
    /\ Top.allowed # {}
    /\ \E c \in Coord_all \ {Top.open_space} :
          Top.board.board[c] = Empty /\ board.board[c] # Empty

\* ------------------------------------------------------------------------
\* main.rs: the solver that recomputes the candidates from the board
\* ------------------------------------------------------------------------
\* AllowedNumbers of main.rs: bit n - 1 stands for the number n
main_AllowedNumbers_all == 0 .. 8

main_get_mask(num) == Shl({0}, Number_get(num) - 1, U16Bits)

main_is_allowed(self, num) == BitAnd(self, main_get_mask(num)) # {}

\* u16::count_ones
main_count_allowed(self) == Cardinality(self)

\* Region: the nine spaces of a row, a column or a 3x3 square
main_get_row(self, row) == [x \in 0 .. 8 |-> self[Coord_new(x, row)]]

main_get_col(self, col) == [y \in 0 .. 8 |-> self[Coord_new(col, y)]]

\* reg[3 * x + y] = self[Coord::new(start_x + x, start_y + y)]
main_get_square(self, square) ==
    LET start_x == 3 * (square % 3)
        start_y == 3 * (square \div 3)
    IN  [k \in 0 .. 8 |-> self[Coord_new(start_x + (k \div 3), start_y + (k % 3))]]

main_regions(self, coord) ==
    <<main_get_col(self, Coord_x(coord)),
      main_get_row(self, Coord_y(coord)),
      main_get_square(self, Coord_square(coord))>>

\* Board::allowed of main.rs: AllowedNumbers::all() with the mask of every
\* Full(n) of the three regions cleared (allowed.0 &= !get_mask(n))
main_allowed(self, coord) ==
    LET regs == main_regions(self, coord)
        masks == UNION {main_get_mask(regs[r][i]) :
                          <<r, i>> \in {ri \in (1 .. 3) \X (0 .. 8) : regs[ri[1]][ri[2]] # Empty}}
    IN  BitAnd(main_AllowedNumbers_all, BitNot(masks, U16Bits))

\* first item of AllowedNumbers::allowed: the least n of 1..9 that is allowed
main_first_allowed(self) ==
    CHOOSE num \in 1 .. 9 :
        /\ main_is_allowed(self, num)
        /\ \A m \in 1 .. 9 : main_is_allowed(self, m) => num <= m

\* make_forced_choices of main.rs: the for loop runs to the first Empty
\* coord with fewer than two candidates; with none it fails, with one it
\* fills the coord and the outer loop starts over; without such a coord the
\* board is returned
RECURSIVE main_make_forced_choices(_)
main_make_forced_choices(b) ==
    LET stops == {c \in Coord_all :
                     b[c] = Empty /\ main_count_allowed(main_allowed(b, c)) <= 1}
    IN  IF stops = {} THEN Some(b)
        ELSE LET coord == CHOOSE c \in stops : \A d \in stops : c <= d
                 allowed_nums == main_allowed(b, coord)
             IN  IF main_count_allowed(allowed_nums) = 0 THEN None
                 ELSE main_make_forced_choices(
                          [b EXCEPT ![coord] = Full(main_first_allowed(allowed_nums))])

\* pick_open_space of main.rs: the first Empty coord and its candidates
main_pick_open_space(b) ==
    IF \A c \in Coord_all : b[c] # Empty THEN None
    ELSE LET c == CHOOSE c \in Coord_all :
                      b[c] = Empty /\ \A d \in Coord_all : b[d] = Empty => c <= d
         IN  Some(<<c, main_allowed(b, c)>>)

\* solve of main.rs; main_possibilities is its for loop from the number num on
RECURSIVE main_solve(_), main_possibilities(_, _, _, _)
main_possibilities(b, space, allowed_nums, num) ==
    IF num = 10 THEN None
    ELSE IF ~main_is_allowed(allowed_nums, num)
         THEN main_possibilities(b, space, allowed_nums, num + 1)
         ELSE LET solved == main_solve([b EXCEPT ![space] = Full(num)])
              IN  IF solved.some THEN solved
                  ELSE main_possibilities(b, space, allowed_nums, num + 1)

main_solve(b) ==
    LET forced == main_make_forced_choices(b)
    IN  IF ~forced.some THEN None
        ELSE LET open_space == main_pick_open_space(forced.val)
             IN  IF ~open_space.some THEN Some(forced.val)
                 ELSE main_possibilities(forced.val, open_space.val[1],
                                         open_space.val[2], 1)

\* C18: the solver of solve.rs and the solver of main.rs return the same
\* Option of Grid for every input; wherever the propagation of solve.rs
\* succeeds it ends on the board the propagation of main.rs reaches from it,
\* wherever it fails the propagation of main.rs fails too, and each forced
\* fill of solve.rs leaves the outcome of the propagation of main.rs as it was.
C18_Equivalent ==
    /\ [](pc = "done" => result = main_solve(arg))
    /\ [](pc = "pick" => main_make_forced_choices(board.board) = Some(board.board))
    /\ [][(pc = "mfc_for" /\ pc' = "return") =>
            main_make_forced_choices(board.board) = None]_vars
    /\ [][(pc = "mfc_for" /\ pc' = "mfc_for" /\ board'.board # board.board) =>
            main_make_forced_choices(board'.board) = main_make_forced_choices(board.board)]_vars

\* solve returned a Grid after backtracking: more fills than Empty cells
C18_Witness ==
    /\ Returned
    /\ Len(fills) > Cardinality({c \in Coord_all : arg[c] = Empty})
    /\ \E c \in Coord_all : arg[c] # Empty

\* no symbol twice among the Full cells of a row, a column or a block of g
NoDuplicate(g) ==
    \A c \in Coord_all : g[c] # Empty => \A d \in HouseOf[c] \ {c} : g[d] # g[c]

\* g comes before h when the cells are compared in increasing linear index
LexLess(g, h) ==
    \E c \in Coord_all : g[c] < h[c] /\ \A d \in 0 .. (c - 1) : g[d] = h[d]

\* the cells that were Empty in the input, in the order they were last filled
\* out of index order: a cell filled before a cell of lower index
OutOfOrder ==
    \E i, j \in 1 .. Len(fills) :
        /\ i < j
        /\ arg[fills[i][1]] = Empty
        /\ arg[fills[j][1]] = Empty
        /\ fills[i][1] > fills[j][1]

\* C19: for an input Grid without duplicate symbol that has a valid
\* completion, the Grid solve returns is a valid completion and comes before
\* every other valid completion in the cell-by-cell order of linear indices.
\* (The completions of the empty Grid are too many to enumerate: the formula
\* speaks of every other input.)
C19_LexSmallest ==
    (pc = "done" /\ arg # Board_new /\ NoDuplicate(arg) /\ Completions(arg) # {}) =>
        /\ result.some
        /\ result.val \in Completions(arg)
        /\ \A h \in Completions(arg) : h = result.val \/ LexLess(result.val, h)

\* an input with several valid completions was solved with fills out of
\* index order
C19_Witness ==
    /\ Returned
    /\ run = "first"
    /\ arg # Board_new
    /\ NoDuplicate(arg)
    /\ Cardinality(Completions(arg)) >= 4
    /\ OutOfOrder

====
